---- MODULE Spec2Model ----
(***************************************************************************)
(* A model of the tic-tac-toe game service: Board (board.py, utils.py),    *)
(* Player (player.py) and Game (game.py).                                  *)
(*                                                                         *)
(* Python's None is the string "None" for symbols and texts, and the empty *)
(* tuple <<>> for an absent move or an absent integer.                     *)
(***************************************************************************)
EXTENDS Integers, Sequences, FiniteSets, TLC

VARIABLES
    board,           \* Game.board.board : the 3x3 grid
    current_player,  \* Game.current_player.symbol
    winner,          \* Game.winner
    is_draw,         \* Game.is_draw
    game_over,       \* Game.game_over
    move_history,    \* Game.move_history
    players,         \* Game.player_x / Game.player_o : use_llm and agent
    enable_logging,  \* Game.enable_logging
    result,          \* the value returned by the last call
    events,          \* the log events emitted by the last call, in order
    llm_calls,       \* the external responses consumed by the last call
    external_calls,  \* how many times agent.invoke was called so far
    pc,              \* "idle", or "invoking" while agent.invoke has not returned
    games,           \* main.games : the registry, game identifier -> Game
    inflight,        \* the requests past the registry check of their handler
    http             \* the response of the handler that ran last, none while it runs

vars == <<board, current_player, winner, is_draw, game_over, move_history,
          players, enable_logging, result, events, llm_calls, external_calls, pc,
          games, inflight, http>>

registryVars == <<games, inflight, http>>

gameVars == <<board, current_player, winner, is_draw, game_over, move_history>>

None == "None"
Idx == 0 .. 2
Symbols == {"X", "O"}

\* The cells in row-major order, as the nested loops of get_available_moves visit them.
AllCells == [i \in 1 .. 9 |-> <<(i - 1) \div 3, (i - 1) % 3>>]

EmptyBoard == [r \in Idx |-> [c \in Idx |-> None]]

Min(S) == CHOOSE x \in S : \A y \in S : x <= y

InSeq(x, s) == \E i \in 1 .. Len(s) : s[i] = x

(***************************************************************************)
(* utils.py                                                                *)
(***************************************************************************)
RowLines(b) == {r \in Idx : b[r][0] = b[r][1] /\ b[r][1] = b[r][2] /\ b[r][0] # None}

ColLines(b) == {c \in Idx : b[0][c] = b[1][c] /\ b[1][c] = b[2][c] /\ b[0][c] # None}

\* check_winner without the test of the anti-diagonal.
check_winner_NoAntiDiagonal(b) ==
    IF RowLines(b) # {} THEN b[Min(RowLines(b))][0]
    ELSE IF ColLines(b) # {} THEN b[0][Min(ColLines(b))]
    ELSE IF b[0][0] = b[1][1] /\ b[1][1] = b[2][2] /\ b[0][0] # None THEN b[0][0]
    ELSE None

\* check_winner scanning the rows from the last to the first.
check_winner_LastRowFirst(b) ==
    IF RowLines(b) # {}
    THEN b[CHOOSE r \in RowLines(b) : \A other \in RowLines(b) : other <= r][0]
    ELSE IF ColLines(b) # {} THEN b[0][Min(ColLines(b))]
    ELSE IF b[0][0] = b[1][1] /\ b[1][1] = b[2][2] /\ b[0][0] # None THEN b[0][0]
    ELSE IF b[0][2] = b[1][1] /\ b[1][1] = b[2][0] /\ b[0][2] # None THEN b[0][2]
    ELSE None

check_winner(b) ==
    IF RowLines(b) # {} THEN b[Min(RowLines(b))][0]
    ELSE IF ColLines(b) # {} THEN b[0][Min(ColLines(b))]
    ELSE IF b[0][0] = b[1][1] /\ b[1][1] = b[2][2] /\ b[0][0] # None THEN b[0][0]
    ELSE IF b[0][2] = b[1][1] /\ b[1][1] = b[2][0] /\ b[0][2] # None THEN b[0][2]
    ELSE None

\* is_board_full returning after the first row.
is_board_full_FirstRowOnly(b) == \A c \in Idx : b[0][c] # None

is_board_full(b) == \A r \in Idx : \A c \in Idx : b[r][c] # None

\* get_available_moves with the column loop one short.
get_available_moves_ShortLoop(b) ==
    SelectSeq(AllCells, LAMBDA m : m[2] < 2 /\ b[m[1]][m[2]] = None)

get_available_moves(b) == SelectSeq(AllCells, LAMBDA m : b[m[1]][m[2]] = None)

(***************************************************************************)
(* board.py                                                                *)
(***************************************************************************)
\* Board.make_move: the returned flag and the grid afterwards.
InRange(row, col) == ~(row < 0 \/ row > 2 \/ col < 0 \/ col > 2)

\* Board.make_move without the check that the cell is empty.
Board_make_move_Overwrites(b, row, col, symbol) ==
    IF ~InRange(row, col) THEN [ok |-> FALSE, board |-> b]
    ELSE [ok |-> TRUE, board |-> [b EXCEPT ![row][col] = symbol]]

\* Board.make_move with the upper range checks off by one (>= 2).
Board_make_move_RejectsLastLine(b, row, col, symbol) ==
    IF row < 0 \/ row >= 2 \/ col < 0 \/ col >= 2 THEN [ok |-> FALSE, board |-> b]
    ELSE IF b[row][col] # None THEN [ok |-> FALSE, board |-> b]
    ELSE [ok |-> TRUE, board |-> [b EXCEPT ![row][col] = symbol]]

\* Board.make_move without the lower range checks: a negative index counts from
\* the end of the list.
Board_make_move_NegativeIndex(b, row, col, symbol) ==
    LET r == IF row < 0 THEN row + 3 ELSE row
        c == IF col < 0 THEN col + 3 ELSE col
    IN  IF row > 2 \/ col > 2 THEN [ok |-> FALSE, board |-> b]
        ELSE IF b[r][c] # None THEN [ok |-> FALSE, board |-> b]
        ELSE [ok |-> TRUE, board |-> [b EXCEPT ![r][c] = symbol]]

Board_make_move(b, row, col, symbol) ==
    IF ~InRange(row, col) THEN [ok |-> FALSE, board |-> b]
    ELSE IF b[row][col] # None THEN [ok |-> FALSE, board |-> b]
    ELSE [ok |-> TRUE, board |-> [b EXCEPT ![row][col] = symbol]]

(***************************************************************************)
(* player.py                                                               *)
(*                                                                         *)
(* An external response is what agent.invoke does for one call:            *)
(*   "raise"     the request fails with an exception;                      *)
(*   "text"      a reply json.loads rejects (JSONDecodeError);             *)
(*   "nonobject" a reply that decodes to a value without .get, so          *)
(*               _parse_llm_response raises an error it does not catch;    *)
(*   "json"      an object whose row and col are absent (<<>>) or an       *)
(*               integer (<<i>>) and whose reasoning is absent or a text;  *)
(*   "hang"      the call never returns.                                   *)
(***************************************************************************)
OptCoord == {<<>>} \cup {<<i>> : i \in -1 .. 3}

JsonResponses ==
    [kind : {"json"}, row : OptCoord, col : OptCoord, reasoning : {"absent", "why"}]

Failure(k) == [kind |-> k, row |-> <<>>, col |-> <<>>, reasoning |-> "absent"]

NoResponse == Failure("none")

ReturningResponses == {Failure("raise"), Failure("text"), Failure("nonobject")} \cup JsonResponses

\* The dict choose_move starts from (player.py 97-104), and {} as Game reads it.
EmptyMetadata ==
    [player_type |-> "absent", prompt |-> None, response |-> <<>>, reasoning |-> None,
     response_time_ms |-> None, error |-> None]

\* Player._parse_llm_response: the (move, reasoning) pair, or raised.
parse_llm_response(resp) ==
    IF resp.kind = "nonobject" THEN [raised |-> TRUE, move |-> <<>>, reasoning |-> None]
    ELSE IF resp.kind = "json" /\ resp.row # <<>> /\ resp.col # <<>>
    THEN [raised |-> FALSE, move |-> <<resp.row[1], resp.col[1]>>,
          reasoning |-> IF resp.reasoning = "absent" THEN "No reasoning provided"
                        ELSE resp.reasoning]
    ELSE [raised |-> FALSE, move |-> <<>>, reasoning |-> None]

\* Player._choose_move_llm: (move or <<>>, metadata).
choose_move_llm(available_moves, resp) ==
    LET md0 == [prompt |-> "prompt", response |-> <<>>, reasoning |-> None,
                response_time_ms |-> None, error |-> None]
        md1 == [md0 EXCEPT !.response_time_ms = "ms", !.response = <<resp>>]
        parsed == parse_llm_response(resp)
        md2 == [md1 EXCEPT !.reasoning = parsed.reasoning]
    IN  IF resp.kind = "raise"
        THEN [move |-> <<>>, metadata |-> [md0 EXCEPT !.error = "exception"]]
        ELSE IF parsed.raised
        THEN [move |-> <<>>, metadata |-> [md1 EXCEPT !.error = "exception"]]
        ELSE IF parsed.move # <<>> /\ InSeq(parsed.move, available_moves)
        THEN [move |-> parsed.move, metadata |-> md2]
        ELSE [move |-> <<>>,
              metadata |-> [md2 EXCEPT !.error = "Invalid move not in available moves"]]

\* Whether choose_move takes the external branch (player.py 107).
UsesAgent(player) == player.use_llm /\ player.agent

\* choose_move with the fallback drawing from all nine cells.
choose_move_FallbackAnyCell(player, available_moves, resp, pick) ==
    LET metadata == [EmptyMetadata EXCEPT
                        !.player_type = IF player.use_llm THEN "llm" ELSE "random"]
        llm == choose_move_llm(available_moves, resp)
    IN  IF available_moves = <<>> THEN [move |-> <<>>, metadata |-> EmptyMetadata]
        ELSE IF UsesAgent(player) /\ llm.move # <<>>
        THEN [move |-> llm.move, metadata |-> metadata]
        ELSE [move |-> AllCells[pick], metadata |-> metadata]

\* Player.choose_move; pick is the index random.choice draws.
choose_move(player, available_moves, resp, pick) ==
    LET metadata == [EmptyMetadata EXCEPT
                        !.player_type = IF player.use_llm THEN "llm" ELSE "random"]
        llm == choose_move_llm(available_moves, resp)
        updated == [metadata EXCEPT !.prompt = llm.metadata.prompt,
                                    !.response = llm.metadata.response,
                                    !.reasoning = llm.metadata.reasoning,
                                    !.response_time_ms = llm.metadata.response_time_ms,
                                    !.error = llm.metadata.error]
    IN  IF available_moves = <<>> THEN [move |-> <<>>, metadata |-> EmptyMetadata]
        ELSE IF UsesAgent(player)
        THEN IF llm.move = <<>> \/ ~InSeq(llm.move, available_moves)
             THEN [move |-> available_moves[pick],
                   metadata |-> [updated EXCEPT
                                    !.error = "LLM move invalid, used random fallback"]]
             ELSE [move |-> llm.move, metadata |-> updated]
        ELSE [move |-> available_moves[pick], metadata |-> metadata]

\* Player.get_player_type
get_player_type(player) == IF player.use_llm THEN "llm" ELSE "random"

(***************************************************************************)
(* game.py                                                                 *)
(*                                                                         *)
(* A game value g holds the fields make_move reads and writes; cfg holds   *)
(* the ones it only reads (the two players and enable_logging).  A result  *)
(* is the returned dict: keys names the keys the dict has, and a field     *)
(* whose key is missing holds a placeholder.  The message is its kind,     *)
(* without the interpolated name or coordinates, and the value of the      *)
(* "board" key is the grid of the game afterwards.                         *)
(***************************************************************************)
Game(b, cp, w, d, go, h) ==
    [board |-> b, current_player |-> cp, winner |-> w, is_draw |-> d,
     game_over |-> go, move_history |-> h]

\* Game.__init__ (game.py 32-39)
NewGame == Game(EmptyBoard, "X", None, FALSE, FALSE, <<>>)

\* Game.switch_player with the comparison against player_o.
switch_player_ComparesO(cp) == IF cp = "O" THEN "O" ELSE "X"

\* Game.switch_player
switch_player(cp) == IF cp = "X" THEN "O" ELSE "X"

NoMove == <<>>

Result(keys, success, message, g, cp, move, metadata) ==
    [op |-> "make_move", keys |-> keys, success |-> success, message |-> message,
     game_over |-> g.game_over, winner |-> g.winner, is_draw |-> g.is_draw,
     current_player |-> cp, move |-> move, metadata |-> metadata,
     moves |-> <<>>, total_moves |-> 0]

TerminalKeys == {"success", "message", "board", "game_over", "winner", "is_draw"}

\* log_move called without move_valid, which defaults to True (logger.py 89).
MoveEvent_DefaultValid(g, symbol, metadata, move_valid) ==
    [type |-> "move", move_number |-> Len(g.move_history) + 1, player |-> symbol,
     player_type |-> IF metadata.player_type = "absent" THEN "random"
                     ELSE metadata.player_type,
     llm_reasoning |-> metadata.reasoning, move_valid |-> TRUE,
     error_message |-> metadata.error]

\* logger.log_move as called at game.py 107-122 (the fields the game decides).
MoveEvent(g, symbol, metadata, move_valid) ==
    [type |-> "move", move_number |-> Len(g.move_history) + 1, player |-> symbol,
     player_type |-> IF metadata.player_type = "absent" THEN "random"
                     ELSE metadata.player_type,
     llm_reasoning |-> metadata.reasoning, move_valid |-> move_valid,
     error_message |-> metadata.error]

\* Game._log_game_summary -> logger.log_game
GameEvent(g, cfg) ==
    [type |-> "game", total_moves |-> Len(g.move_history), winner |-> g.winner,
     is_draw |-> g.is_draw,
     player_x_type |-> get_player_type(cfg.players["X"]),
     player_o_type |-> get_player_type(cfg.players["O"])]

\* _log_game_summary with its guard inverted (returns when logging is enabled).
log_game_summary_InvertedGuard(g, cfg) ==
    IF ~cfg.enable_logging THEN <<GameEvent(g, cfg)>> ELSE <<>>

log_game_summary(g, cfg) == IF cfg.enable_logging THEN <<GameEvent(g, cfg)>> ELSE <<>>

\* game.py 61-69
AlreadyOver(g) ==
    [g |-> g, events |-> <<>>, llm_calls |-> <<>>,
     result |-> Result(TerminalKeys, FALSE, "Game is already over", g, None, NoMove,
                       EmptyMetadata)]

\* game.py 73-84
NoAvailableMoves(g, cfg) ==
    LET g1 == [g EXCEPT !.is_draw = TRUE, !.game_over = TRUE]
    IN  [g |-> g1, events |-> log_game_summary(g1, cfg), llm_calls |-> <<>>,
         result |-> Result(TerminalKeys, FALSE, "No available moves",
                           [g1 EXCEPT !.winner = None], None, NoMove, EmptyMetadata)]

\* game.py 89: the player chooses unless both coordinates are given.
PlayerChooses(row, col) == row = <<>> \/ col = <<>>

\* AfterPlacement without game_over = True on a win.
AfterPlacement_WinNotTerminal(g1, cfg, move, metadata, evs, calls) ==
    LET symbol == g1.current_player
        w == check_winner(g1.board)
        gw == [g1 EXCEPT !.winner = w]
        gd == [g1 EXCEPT !.is_draw = TRUE, !.game_over = TRUE]
        gn == [g1 EXCEPT !.current_player = switch_player(symbol)]
        g2 == IF w # None THEN gw ELSE IF is_board_full(g1.board) THEN gd ELSE gn
    IN  [g |-> g2, events |-> evs, llm_calls |-> calls,
         result |-> Result(TerminalKeys \cup {"move", "metadata"}, TRUE, "Move successful",
                           g2, None, <<move[1], move[2], symbol>>, metadata)]

\* AfterPlacement without the check for a full board.
AfterPlacement_DrawNotTerminal(g1, cfg, move, metadata, evs, calls) ==
    LET symbol == g1.current_player
        w == check_winner(g1.board)
        gw == [g1 EXCEPT !.winner = w, !.game_over = TRUE]
        gn == [g1 EXCEPT !.current_player = switch_player(symbol)]
        g2 == IF w # None THEN gw ELSE gn
    IN  [g |-> g2, events |-> evs, llm_calls |-> calls,
         result |-> Result(TerminalKeys \cup {"move", "metadata"}, TRUE, "Move successful",
                           g2, None, <<move[1], move[2], symbol>>, metadata)]

\* AfterPlacement with the full-board check ahead of the winner check.
AfterPlacement_DrawBeforeWin(g1, cfg, move, metadata, evs, calls) ==
    LET symbol == g1.current_player
        w == check_winner(g1.board)
        placed == <<move[1], move[2], symbol>>
        gw == [g1 EXCEPT !.winner = w, !.game_over = TRUE]
        gd == [g1 EXCEPT !.is_draw = TRUE, !.game_over = TRUE]
        gn == [g1 EXCEPT !.current_player = switch_player(symbol)]
        g2 == IF is_board_full(g1.board) THEN gd ELSE IF w # None THEN gw ELSE gn
    IN  [g |-> g2, events |-> evs, llm_calls |-> calls,
         result |-> Result(TerminalKeys \cup {"move", "metadata"}, TRUE, "Move successful",
                           g2, None, placed, metadata)]

\* AfterPlacement recording a win while the game goes on with the other player.
AfterPlacement_PlaysOnAfterWin(g1, cfg, move, metadata, evs, calls) ==
    LET symbol == g1.current_player
        w == check_winner(g1.board)
        gd == [g1 EXCEPT !.is_draw = TRUE, !.game_over = TRUE]
        gn == [g1 EXCEPT !.winner = w, !.current_player = switch_player(symbol)]
        g2 == IF is_board_full(g1.board) THEN gd ELSE gn
    IN  [g |-> g2, events |-> evs, llm_calls |-> calls,
         result |-> Result(TerminalKeys \cup {"move", "metadata"}, TRUE, "Move successful",
                           g2, None, <<move[1], move[2], symbol>>, metadata)]

\* game.py 144-196: after a valid placement was recorded in g1.
AfterPlacement(g1, cfg, move, metadata, evs, calls) ==
    LET symbol == g1.current_player
        w == check_winner(g1.board)
        placed == <<move[1], move[2], symbol>>
        gw == [g1 EXCEPT !.winner = w, !.game_over = TRUE]
        gd == [g1 EXCEPT !.is_draw = TRUE, !.game_over = TRUE]
        gn == [g1 EXCEPT !.current_player = switch_player(symbol)]
    IN  IF w # None
        THEN [g |-> gw, events |-> evs \o log_game_summary(gw, cfg), llm_calls |-> calls,
              result |-> Result(TerminalKeys \cup {"move", "metadata"}, TRUE, "wins",
                                [gw EXCEPT !.is_draw = FALSE], None, placed, metadata)]
        ELSE IF is_board_full(g1.board)
        THEN [g |-> gd, events |-> evs \o log_game_summary(gd, cfg), llm_calls |-> calls,
              result |-> Result(TerminalKeys \cup {"move", "metadata"}, TRUE, "draw",
                                [gd EXCEPT !.winner = None], None, placed, metadata)]
        ELSE [g |-> gn, events |-> evs, llm_calls |-> calls,
              result |-> Result({"success", "message", "board", "game_over",
                                 "current_player", "move", "metadata"},
                                TRUE, "Move successful", gn, gn.current_player,
                                <<move[1], move[2],
                                  IF gn.current_player = "O" THEN "X" ELSE "O">>,
                                metadata)]

\* make_move_open with the external call made again after a failed attempt.
make_move_open_RetriesOnFailure(g, cfg, row, col, resp, pick) ==
    LET available_moves == get_available_moves(g.board)
        player == cfg.players[g.current_player]
        chosen == choose_move(player, available_moves, resp, pick)
        metadata == IF PlayerChooses(row, col) THEN chosen.metadata ELSE EmptyMetadata
        move == IF PlayerChooses(row, col) THEN chosen.move ELSE <<row[1], col[1]>>
        calls == IF PlayerChooses(row, col) /\ UsesAgent(player)
                 THEN IF choose_move_llm(available_moves, resp).move = <<>>
                      THEN <<resp, resp>> ELSE <<resp>>
                 ELSE <<>>
        placement == Board_make_move(g.board, move[1], move[2], g.current_player)
        evs == IF cfg.enable_logging
               THEN <<MoveEvent(g, g.current_player, metadata, placement.ok)>>
               ELSE <<>>
        g1 == [g EXCEPT !.board = placement.board,
                        !.move_history = Append(@, [player |-> g.current_player,
                                                    row |-> move[1], col |-> move[2],
                                                    reasoning |-> metadata.reasoning])]
    IN  IF available_moves = <<>> THEN NoAvailableMoves(g, cfg)
        ELSE IF ~placement.ok
        THEN [g |-> g, events |-> evs, llm_calls |-> calls,
              result |-> Result({"success", "message", "board", "game_over",
                                 "current_player", "metadata"},
                                FALSE, "Invalid move", g, g.current_player, NoMove,
                                metadata)]
        ELSE AfterPlacement(g1, cfg, move, metadata, evs, calls)

\* make_move_open keeping a coordinate that was supplied alone.
make_move_open_KeepsSuppliedCoordinate(g, cfg, row, col, resp, pick) ==
    LET available_moves == get_available_moves(g.board)
        player == cfg.players[g.current_player]
        chosen == choose_move(player, available_moves, resp, pick)
        metadata == IF PlayerChooses(row, col) THEN chosen.metadata ELSE EmptyMetadata
        move == <<IF row = <<>> THEN chosen.move[1] ELSE row[1],
                  IF col = <<>> THEN chosen.move[2] ELSE col[1]>>
        calls == IF PlayerChooses(row, col) /\ UsesAgent(player) THEN <<resp>> ELSE <<>>
        placement == Board_make_move(g.board, move[1], move[2], g.current_player)
        evs == IF cfg.enable_logging
               THEN <<MoveEvent(g, g.current_player, metadata, placement.ok)>>
               ELSE <<>>
        g1 == [g EXCEPT !.board = placement.board,
                        !.move_history = Append(@, [player |-> g.current_player,
                                                    row |-> move[1], col |-> move[2],
                                                    reasoning |-> metadata.reasoning])]
    IN  IF available_moves = <<>> THEN NoAvailableMoves(g, cfg)
        ELSE IF ~placement.ok
        THEN [g |-> g, events |-> evs, llm_calls |-> calls,
              result |-> Result({"success", "message", "board", "game_over",
                                 "current_player", "metadata"},
                                FALSE, "Invalid move", g, g.current_player, NoMove,
                                metadata)]
        ELSE AfterPlacement(g1, cfg, move, metadata, evs, calls)

\* Game.make_move past its first check (game.py 71-196).
make_move_open(g, cfg, row, col, resp, pick) ==
    LET available_moves == get_available_moves(g.board)
        player == cfg.players[g.current_player]
        chosen == choose_move(player, available_moves, resp, pick)
        metadata == IF PlayerChooses(row, col) THEN chosen.metadata ELSE EmptyMetadata
        move == IF PlayerChooses(row, col) THEN chosen.move ELSE <<row[1], col[1]>>
        calls == IF PlayerChooses(row, col) /\ UsesAgent(player) THEN <<resp>> ELSE <<>>
        placement == Board_make_move(g.board, move[1], move[2], g.current_player)
        evs == IF cfg.enable_logging
               THEN <<MoveEvent(g, g.current_player, metadata, placement.ok)>>
               ELSE <<>>
        g1 == [g EXCEPT !.board = placement.board,
                        !.move_history = Append(@, [player |-> g.current_player,
                                                    row |-> move[1], col |-> move[2],
                                                    reasoning |-> metadata.reasoning])]
    IN  IF available_moves = <<>> THEN NoAvailableMoves(g, cfg)
        ELSE IF ~placement.ok
        THEN [g |-> g, events |-> evs, llm_calls |-> calls,
              result |-> Result({"success", "message", "board", "game_over",
                                 "current_player", "metadata"},
                                FALSE, "Invalid move", g, g.current_player, NoMove,
                                metadata)]
        ELSE AfterPlacement(g1, cfg, move, metadata, evs, calls)

\* make_move without the check of game_over.
make_move_NoTerminalCheck(g, cfg, row, col, resp, pick) ==
    make_move_open(g, cfg, row, col, resp, pick)

\* Game.make_move(row, col): the game afterwards, the returned dict, the events
\* logged and the external responses consumed.  resp is what agent.invoke does if
\* it is called, pick the index random.choice draws if it is called.
make_move(g, cfg, row, col, resp, pick) ==
    IF g.game_over THEN AlreadyOver(g)
    ELSE make_move_open(g, cfg, row, col, resp, pick)

\* Game.reset without move_history = [].
reset_KeepsHistory(g) == Game(EmptyBoard, "X", None, FALSE, FALSE, g.move_history)

\* Game.reset without current_player = player_x.
reset_KeepsTurn(g) == Game(EmptyBoard, g.current_player, None, FALSE, FALSE, <<>>)

\* Game.reset (game.py 241-246)
reset(g) == Game(EmptyBoard, "X", None, FALSE, FALSE, <<>>)

\* Game.get_state listing the board's empty cells whether or not the game is over.
get_state_MovesWhenOver(g) ==
    [board |-> g.board,
     current_player |-> IF ~g.game_over THEN g.current_player ELSE None,
     winner |-> g.winner, is_draw |-> g.is_draw, game_over |-> g.game_over,
     move_history |-> g.move_history,
     available_moves |-> get_available_moves(g.board)]

\* Game.get_state (game.py 225-237)
get_state(g) ==
    [board |-> g.board,
     current_player |-> IF ~g.game_over THEN g.current_player ELSE None,
     winner |-> g.winner, is_draw |-> g.is_draw, game_over |-> g.game_over,
     move_history |-> g.move_history,
     available_moves |-> IF ~g.game_over THEN get_available_moves(g.board) ELSE <<>>]

\* The first n entries of s (all of s when it is shorter).
Take(s, n) == SubSeq(s, 1, IF Len(s) < n THEN Len(s) ELSE n)

\* The runs of the loop of Game.play_auto (game.py 205-208) that calls make_move at
\* most fuel times: the game afterwards, the list of results, the events logged,
\* and whether the loop has ended.  resps are the external responses an external
\* player may get, and random.choice draws among the first width empty cells.
RECURSIVE AutoRuns(_, _, _, _, _)
AutoRuns(g, cfg, resps, width, fuel) ==
    IF g.game_over
    THEN {[g |-> g, moves |-> <<>>, events |-> <<>>, ended |-> TRUE]}
    ELSE IF fuel = 0
    THEN {[g |-> g, moves |-> <<>>, events |-> <<>>, ended |-> FALSE]}
    ELSE UNION {
           LET out == make_move(g, cfg, <<>>, <<>>, resp, pick)
           IN  {[g |-> run.g, moves |-> <<out.result>> \o run.moves,
                 events |-> out.events \o run.events, ended |-> run.ended] :
                  run \in AutoRuns(out.g, cfg, resps, width, fuel - 1)} :
           resp \in IF UsesAgent(cfg.players[g.current_player]) THEN resps
                    ELSE {Failure("none")},
           pick \in 1 .. IF Take(get_available_moves(g.board), width) = <<>> THEN 1
                         ELSE Len(Take(get_available_moves(g.board), width))}

\* The dict Game.play_auto returns (game.py 210-216) after the run.
AutoResult(run) ==
    [op |-> "play_auto", keys |-> {"winner", "is_draw", "board", "moves", "total_moves"},
     success |-> run.ended, message |-> "none", game_over |-> run.g.game_over,
     winner |-> run.g.winner, is_draw |-> run.g.is_draw, current_player |-> None,
     move |-> NoMove, metadata |-> EmptyMetadata, moves |-> run.moves,
     total_moves |-> Len(run.g.move_history)]

(***************************************************************************)
(* main.py: the registry and the responses                                 *)
(*                                                                         *)
(* uuid4 identifiers are 1 .. MaxGames, taken in increasing order and      *)
(* never issued twice; an identifier not issued yet stands for any text    *)
(* that is no key.  An entry of the registry is the Game object: its       *)
(* game_id, the fields make_move writes (g), its players, enable_logging.  *)
(***************************************************************************)
MaxGames == 2

GameIds == 1 .. MaxGames

RequestIds == GameIds

Unused == [status |-> "unused"]

Deleted == [status |-> "deleted"]

EmptyRegistry == [id \in GameIds |-> Unused]

\* game_id in games
InRegistry(reg, id) == id \in GameIds /\ reg[id].status = "registered"

\* A response: the status code, and of the body the message or detail, the
\* "state" (<<>> when the body has none), the dict of Game.make_move or
\* Game.play_auto (<<>> when none) and the game_ids list_games lists.
Response(op, id, status, message, state, res, listing) ==
    [op |-> op, game_id |-> id, status |-> status, message |-> message,
     state |-> state, result |-> res, listing |-> listing]

NoHttp == Response("none", 0, 0, "none", <<>>, <<>>, <<>>)

\* raise HTTPException(status_code=404, detail="Game not found")
NotFound(op, id) == Response(op, id, 404, "Game not found", <<>>, <<>>, <<>>)

\* games[game_id] on an identifier that is not a key: KeyError, answered with 500.
KeyError(op, id) == Response(op, id, 500, "Internal Server Error", <<>>, <<>>, <<>>)

(***************************************************************************)
(* The state machine                                                       *)
(***************************************************************************)
\* Of the empty cells, callers and random.choice use the first MaxChoice in
\* row-major order; every out-of-range or occupied target is used.
MaxChoice == 3

Coord == -1 .. 3

ThisGame == Game(board, current_player, winner, is_draw, game_over, move_history)

Config == [players |-> players, enable_logging |-> enable_logging]

\* No call has returned yet (op = "none"); Game.reset returns nothing (op = "reset").
NoResult == [Result({}, FALSE, "none", NewGame, None, NoMove, EmptyMetadata)
                EXCEPT !.op = "none"]

RandomPlayer == [use_llm |-> FALSE, agent |-> FALSE]
LLMPlayer == [use_llm |-> TRUE, agent |-> TRUE]
\* use_llm with no agent: nikitas_agents is not importable (player.py 8-13, 51).
LLMPlayerNoAgent == [use_llm |-> TRUE, agent |-> FALSE]

SetGame(g) ==
    /\ board' = g.board
    /\ current_player' = g.current_player
    /\ winner' = g.winner
    /\ is_draw' = g.is_draw
    /\ game_over' = g.game_over
    /\ move_history' = g.move_history

Returns(out) ==
    /\ SetGame(out.g)
    /\ result' = out.result
    /\ events' = out.events
    /\ llm_calls' = out.llm_calls
    /\ external_calls' = external_calls + Len(out.llm_calls)
    /\ UNCHANGED <<players, enable_logging, pc, registryVars>>

InitWith(px, po, logging) ==
    /\ board = NewGame.board
    /\ current_player = NewGame.current_player
    /\ winner = NewGame.winner
    /\ is_draw = NewGame.is_draw
    /\ game_over = NewGame.game_over
    /\ move_history = NewGame.move_history
    /\ players = [s \in Symbols |-> IF s = "X" THEN px ELSE po]
    /\ enable_logging = logging
    /\ result = NoResult
    /\ events = <<>>
    /\ llm_calls = <<>>
    /\ external_calls = 0
    /\ pc = "idle"
    /\ games = EmptyRegistry
    /\ inflight = {}
    /\ http = NoHttp

FirstChoices(b) == Take(get_available_moves(b), MaxChoice)

Explored(b, move) == InSeq(move, get_available_moves(b)) => InSeq(move, FirstChoices(b))

\* The picks random.choice draws (1 when it is not called).
Picks(b) == 1 .. IF FirstChoices(b) = <<>> THEN 1 ELSE Len(FirstChoices(b))

\* Game.make_move(row, col) with both coordinates given.
Step(row, col) == Returns(make_move(ThisGame, Config, <<row>>, <<col>>, NoResponse, 1))

\* Game.make_move(row, col) with a coordinate missing.
StepChoose(row, col, resp, pick) == Returns(make_move(ThisGame, Config, row, col, resp, pick))

\* The calls with one or both coordinates missing.
PartialInputs == {rc \in {<<>>, <<-1>>, <<1>>} \X {<<>>, <<-1>>, <<1>>} :
                    PlayerChooses(rc[1], rc[2])}

\* POST /games/{id}/move with both coordinates.
MakeMoveExplicit ==
    /\ pc = "idle"
    /\ \E row \in Coord, col \in Coord :
          /\ Explored(board, <<row, col>>)
          /\ Step(row, col)

\* POST /games/{id}/move with a coordinate missing, the current player not external.
MakeMoveRandom ==
    /\ pc = "idle"
    /\ ~UsesAgent(players[current_player])
    /\ \E rc \in PartialInputs, pick \in Picks(board) :
          StepChoose(rc[1], rc[2], NoResponse, pick)

\* Game.reset()
Reset ==
    /\ pc = "idle"
    /\ SetGame(reset(ThisGame))
    /\ result' = [NoResult EXCEPT !.op = "reset"]
    /\ events' = <<>>
    /\ llm_calls' = <<>>
    /\ UNCHANGED <<players, enable_logging, external_calls, pc, registryVars>>

\* POST /games/{id}/auto: Game.play_auto().  A loop that has not ended after
\* MaxAutoCalls calls of make_move is left running (pc = "looping").
MaxAutoCalls == 10

\* Inside play_auto, random.choice uses the first MaxAutoChoice empty cells.
MaxAutoChoice == 2

PlayAuto ==
    /\ pc = "idle"
    /\ \E run \in AutoRuns(ThisGame, Config, {}, MaxAutoChoice, MaxAutoCalls) :
          /\ SetGame(run.g)
          /\ result' = AutoResult(run)
          /\ events' = run.events
          /\ llm_calls' = <<>>
          /\ pc' = IF run.ended THEN "idle" ELSE "looping"
          /\ UNCHANGED <<players, enable_logging, external_calls, registryVars>>

Init == InitWith(RandomPlayer, RandomPlayer, TRUE)

Next == MakeMoveExplicit \/ MakeMoveRandom \/ Reset

Spec == Init /\ [][Next]_vars

\* The game driven by its players alone: single chosen moves, play_auto and reset.
NextAuto == MakeMoveRandom \/ PlayAuto \/ Reset

SpecAuto == Init /\ [][NextAuto]_vars

(***************************************************************************)
(* The Board alone (board.py): any caller placing any symbol anywhere.     *)
(***************************************************************************)
Board_get_winner(b) == check_winner(b)

\* Board.make_move(row, col, symbol); the returned flag is result.success.
BoardPlace ==
    \E row \in Coord, col \in Coord, symbol \in Symbols :
       LET out == Board_make_move(board, row, col, symbol)
       IN  /\ board' = out.board
           /\ result' = [NoResult EXCEPT !.op = "place", !.success = out.ok]
           /\ UNCHANGED <<current_player, winner, is_draw, game_over, move_history,
                          players, enable_logging, events, llm_calls, external_calls, pc,
                          registryVars>>

\* Board.reset()
BoardReset ==
    /\ board' = EmptyBoard
    /\ result' = [NoResult EXCEPT !.op = "board_reset"]
    /\ UNCHANGED <<current_player, winner, is_draw, game_over, move_history,
                   players, enable_logging, events, llm_calls, external_calls, pc,
                   registryVars>>

\* Board.get_winner(); the returned symbol is result.winner.
BoardGetWinner ==
    /\ result' = [NoResult EXCEPT !.op = "get_winner", !.winner = Board_get_winner(board)]
    /\ UNCHANGED <<board, current_player, winner, is_draw, game_over, move_history,
                   players, enable_logging, events, llm_calls, external_calls, pc,
                   registryVars>>

NextBoard == BoardPlace \/ BoardReset \/ BoardGetWinner

SpecBoard == Init /\ [][NextBoard]_vars

(***************************************************************************)
(* The game with external players.  A game starts from a position of one   *)
(* of two played games, set up by make_move with explicit coordinates, and *)
(* is then driven by its players; agent.invoke answers with any response   *)
(* or never returns.                                                       *)
(***************************************************************************)
\* The process makes at most MaxExternalCalls calls of agent.invoke.
MaxExternalCalls == 1

\* X wins with the top row on the fifth move.
WonGame == <<<<0, 0>>, <<1, 1>>, <<0, 1>>, <<2, 2>>, <<0, 2>>>>

\* Nine moves and no line.
DrawnGame == <<<<0, 0>>, <<0, 1>>, <<0, 2>>, <<1, 1>>, <<1, 0>>, <<1, 2>>, <<2, 1>>,
               <<2, 0>>, <<2, 2>>>>

\* What the last of the calls make_move(row, col) for the first n of moves returns,
\* on a new game.
RECURSIVE Replay(_, _, _)
Replay(cfg, moves, n) ==
    IF n = 0
    THEN [g |-> NewGame, result |-> NoResult, events |-> <<>>, llm_calls |-> <<>>]
    ELSE make_move(Replay(cfg, moves, n - 1).g, cfg, <<moves[n][1]>>, <<moves[n][2]>>,
                   NoResponse, 1)

PlayerKinds == {RandomPlayer, LLMPlayer, LLMPlayerNoAgent}

InitLLM ==
    \E px \in PlayerKinds, po \in PlayerKinds, moves \in {WonGame, DrawnGame} :
      \E n \in 0 .. Len(moves) :
        LET ps == [s \in Symbols |-> IF s = "X" THEN px ELSE po]
            out == Replay([players |-> ps, enable_logging |-> TRUE], moves, n)
        IN  /\ (UsesAgent(px) \/ UsesAgent(po))
            /\ board = out.g.board
            /\ current_player = out.g.current_player
            /\ winner = out.g.winner
            /\ is_draw = out.g.is_draw
            /\ game_over = out.g.game_over
            /\ move_history = out.g.move_history
            /\ players = ps
            /\ enable_logging = TRUE
            /\ result = out.result
            /\ events = out.events
            /\ llm_calls = <<>>
            /\ external_calls = 0
            /\ pc = "idle"
            /\ games = EmptyRegistry
            /\ inflight = {}
            /\ http = NoHttp

\* Game.make_move() with no coordinates, the current player external, and
\* agent.invoke returning or raising.
MakeMoveExternal ==
    /\ pc = "idle"
    /\ ~game_over
    /\ UsesAgent(players[current_player])
    /\ external_calls < MaxExternalCalls
    /\ \E resp \in ReturningResponses, pick \in Picks(board) :
          /\ Explored(board, parse_llm_response(resp).move)
          /\ StepChoose(<<>>, <<>>, resp, pick)

\* Game.make_move() on a finished game, the current player external: no call is made.
MakeMoveExternalOver ==
    /\ pc = "idle"
    /\ game_over
    /\ UsesAgent(players[current_player])
    /\ StepChoose(<<>>, <<>>, NoResponse, 1)

\* Game.make_move() with no coordinates, the current player external, and
\* agent.invoke never returning: the call stays at player.py 159, inside the
\* request handler (main.py 164), which is not left.
MakeMoveExternalHangs ==
    /\ pc = "idle"
    /\ ~game_over
    /\ UsesAgent(players[current_player])
    /\ external_calls < MaxExternalCalls
    /\ pc' = "invoking"
    /\ external_calls' = external_calls + 1
    /\ UNCHANGED <<gameVars, players, enable_logging, result, events, llm_calls,
                   registryVars>>

\* Game.make_move() with no coordinates, the current player not external.
MakeMoveUnassisted ==
    /\ pc = "idle"
    /\ ~UsesAgent(players[current_player])
    /\ \E pick \in Picks(board) : StepChoose(<<>>, <<>>, NoResponse, pick)

NextLLM ==
    \/ MakeMoveExternal
    \/ MakeMoveExternalOver
    \/ MakeMoveExternalHangs
    \/ MakeMoveUnassisted

SpecLLM == InitLLM /\ [][NextLLM]_vars

(***************************************************************************)
(* The service with its registry (main.py).  Each handler is a coroutine   *)
(* of the one event loop uvicorn.run starts (main.py 287-289): it runs     *)
(* from its registry check to its return without an await, so no other     *)
(* handler runs in between.  A handler is two steps here, the registry     *)
(* check and the rest, and EventLoopFree is the scheduling.  Games in the  *)
(* registry are moved to their first empty cell, named by the caller or    *)
(* drawn by random.choice, and by play_auto (X wins with the seventh       *)
(* move); players make no external call.                                   *)
(***************************************************************************)
singleVars == <<gameVars, players, enable_logging, result, events, llm_calls,
                external_calls, pc>>

\* The event loop is free to start a handler: none is between its check and its return.
EventLoopFree_Preemptive == TRUE

EventLoopFree == inflight = {}

Cfg(entry) == [players |-> entry.players, enable_logging |-> entry.enable_logging]

\* create_game (main.py 92-142) with the identifier uuid4 returned.
create_game(reg, id, px, po, logging) ==
    LET entry == [status |-> "registered", game_id |-> id, g |-> NewGame,
                  players |-> [s \in Symbols |-> IF s = "X" THEN px ELSE po],
                  enable_logging |-> logging]
    IN  [games |-> [reg EXCEPT ![id] = entry],
         response |-> Response("create", id, 200, "Game created successfully",
                               <<get_state(entry.g)>>,
                               <<[player_x |-> get_player_type(px),
                                  player_o |-> get_player_type(po)]>>, <<>>)]

\* get_game past its check (main.py 151-154)
get_game(reg, id) ==
    IF ~InRegistry(reg, id) THEN [games |-> reg, response |-> KeyError("get", id)]
    ELSE [games |-> reg,
          response |-> Response("get", id, 200, "none", <<get_state(reg[id].g)>>,
                                <<>>, <<>>)]

\* make_move past its check (main.py 163-169)
http_make_move(reg, id, row, col, pick) ==
    IF ~InRegistry(reg, id) THEN [games |-> reg, response |-> KeyError("move", id)]
    ELSE LET out == make_move(reg[id].g, Cfg(reg[id]), row, col, NoResponse, pick)
         IN  [games |-> [reg EXCEPT ![id].g = out.g],
              response |-> Response("move", id, 200, out.result.message, <<>>,
                                    <<out.result>>, <<>>)]

\* play_auto past its check (main.py 178-184), for one run of Game.play_auto
http_play_auto(reg, id, run) ==
    IF ~InRegistry(reg, id) THEN [games |-> reg, response |-> KeyError("auto", id)]
    ELSE [games |-> [reg EXCEPT ![id].g = run.g],
          response |-> Response("auto", id, 200, "none", <<>>, <<AutoResult(run)>>, <<>>)]

\* reset_game with both games of the registry reset.
reset_game_ResetsAll(reg, id) ==
    IF ~InRegistry(reg, id) THEN [games |-> reg, response |-> KeyError("reset", id)]
    ELSE LET after == [i \in GameIds |-> IF InRegistry(reg, i)
                                         THEN [reg[i] EXCEPT !.g = reset(reg[i].g)]
                                         ELSE reg[i]]
         IN  [games |-> after,
              response |-> Response("reset", id, 200, "Game reset successfully",
                                    <<get_state(after[id].g)>>, <<>>, <<>>)]

\* reset_game past its check (main.py 193-199)
reset_game(reg, id) ==
    IF ~InRegistry(reg, id) THEN [games |-> reg, response |-> KeyError("reset", id)]
    ELSE LET after == [reg EXCEPT ![id].g = reset(reg[id].g)]
         IN  [games |-> after,
              response |-> Response("reset", id, 200, "Game reset successfully",
                                    <<get_state(after[id].g)>>, <<>>, <<>>)]

\* delete_game past its check (main.py 208-213)
delete_game(reg, id) ==
    IF ~InRegistry(reg, id) THEN [games |-> reg, response |-> KeyError("delete", id)]
    ELSE [games |-> [reg EXCEPT ![id] = Deleted],
          response |-> Response("delete", id, 200, "Game deleted successfully",
                                <<>>, <<>>, <<>>)]

\* list_games (main.py 219-232); the dict keeps the order of insertion.
list_games(reg) ==
    LET ids == SelectSeq([i \in 1 .. MaxGames |-> i], LAMBDA i : InRegistry(reg, i))
    IN  [games |-> reg,
         response |-> Response("list", 0, 200, "none", <<>>, <<[total_games |-> Len(ids)]>>,
                               [k \in 1 .. Len(ids) |->
                                  [game_id |-> ids[k],
                                   player_x_type |-> get_player_type(reg[ids[k]].players["X"]),
                                   player_o_type |-> get_player_type(reg[ids[k]].players["O"]),
                                   game_over |-> reg[ids[k]].g.game_over,
                                   winner |-> reg[ids[k]].g.winner]])]

Request(op, id, row, col) == [op |-> op, game_id |-> id, row |-> row, col |-> col]

\* Check without the test of the registry.
Check_NoTest(req) ==
    /\ EventLoopFree
    /\ inflight' = inflight \cup {req}
    /\ http' = NoHttp
    /\ UNCHANGED games
    /\ UNCHANGED singleVars

\* The handler of req from its start to the end of its check (e.g. main.py 160-161).
Check(req) ==
    /\ EventLoopFree
    /\ IF InRegistry(games, req.game_id)
       THEN /\ inflight' = inflight \cup {req}
            /\ http' = NoHttp
            /\ UNCHANGED games
       ELSE /\ http' = NotFound(req.op, req.game_id)
            /\ UNCHANGED <<games, inflight>>
    /\ UNCHANGED singleVars

\* The handler of req from its check to its return.
Finish(req, out) ==
    /\ games' = out.games
    /\ http' = out.response
    /\ inflight' = inflight \ {req}
    /\ UNCHANGED singleVars

\* The body naming the first empty cell of the game g.
ExplicitMoves(g) ==
    {<<<<m[1]>>, <<m[2]>>>> : m \in {get_available_moves(g.board)[i] :
                                       i \in 1 .. Len(Take(get_available_moves(g.board), 1))}}

\* The bodies of POST /games/{id}/move used on the game g.
MoveInputs(g) == ExplicitMoves(g) \cup {<<<<>>, <<>>>>}

\* POST /games: the body is absent, or configures player X as use_llm (with
\* no agent available) and switches logging off.
CreateGame ==
    /\ EventLoopFree
    /\ \E id \in GameIds :
          /\ games[id] = Unused
          /\ \A i \in GameIds : i < id => games[i] # Unused
          /\ \E cfg \in {<<RandomPlayer, TRUE>>, <<LLMPlayerNoAgent, FALSE>>} :
                LET out == create_game(games, id, cfg[1], RandomPlayer, cfg[2])
                IN  /\ games' = out.games
                    /\ http' = out.response
    /\ UNCHANGED <<inflight, singleVars>>

\* GET /games
ListGames ==
    /\ EventLoopFree
    /\ http' = list_games(games).response
    /\ UNCHANGED <<games, inflight, singleVars>>

GetGameCheck == \E id \in RequestIds : Check(Request("get", id, <<>>, <<>>))

GetGameServe ==
    \E req \in inflight : req.op = "get" /\ Finish(req, get_game(games, req.game_id))

MakeMoveCheck ==
    \E id \in RequestIds :
       \E rc \in IF InRegistry(games, id) THEN MoveInputs(games[id].g) ELSE {<<<<>>, <<>>>>} :
          Check(Request("move", id, rc[1], rc[2]))

MakeMoveServe ==
    \E req \in inflight :
       /\ req.op = "move"
       /\ Finish(req, http_make_move(games, req.game_id, req.row, req.col, 1))

PlayAutoCheck == \E id \in RequestIds : Check(Request("auto", id, <<>>, <<>>))

PlayAutoServe ==
    \E req \in inflight :
       /\ req.op = "auto"
       /\ IF InRegistry(games, req.game_id)
          THEN \E run \in AutoRuns(games[req.game_id].g, Cfg(games[req.game_id]), {}, 1,
                                   MaxAutoCalls) :
                  run.ended /\ Finish(req, http_play_auto(games, req.game_id, run))
          ELSE Finish(req, http_play_auto(games, req.game_id, <<>>))

ResetGameCheck == \E id \in RequestIds : Check(Request("reset", id, <<>>, <<>>))

ResetGameServe ==
    \E req \in inflight : req.op = "reset" /\ Finish(req, reset_game(games, req.game_id))

DeleteGameCheck == \E id \in RequestIds : Check(Request("delete", id, <<>>, <<>>))

DeleteGameServe ==
    \E req \in inflight : req.op = "delete" /\ Finish(req, delete_game(games, req.game_id))

NextRegistry ==
    \/ CreateGame
    \/ ListGames
    \/ GetGameCheck
    \/ GetGameServe
    \/ MakeMoveCheck
    \/ MakeMoveServe
    \/ PlayAutoCheck
    \/ PlayAutoServe
    \/ ResetGameCheck
    \/ ResetGameServe
    \/ DeleteGameCheck
    \/ DeleteGameServe

SpecRegistry == Init /\ [][NextRegistry]_vars

(***************************************************************************)
(* Notions the properties are stated with, defined apart from the code     *)
(***************************************************************************)
Cells == Idx \X Idx

Lines ==
    {{<<r, c>> : c \in Idx} : r \in Idx} \cup {{<<r, c>> : r \in Idx} : c \in Idx}
    \cup {{<<i, i>> : i \in Idx}, {<<i, 2 - i>> : i \in Idx}}

HasLine(b, s) == \E line \in Lines : \A cell \in line : b[cell[1]][cell[2]] = s

SomeLine(b) == HasLine(b, "X") \/ HasLine(b, "O")

Marks(b) == {cell \in Cells : b[cell[1]][cell[2]] # None}

Full(b) == Marks(b) = Cells

OutOfRange(row, col) == row \notin Idx \/ col \notin Idx

\* C1: in every reachable state game_over is true iff the board holds a complete
\* line or is full with no complete line.
C1_GameOverIffWonOrFull ==
    game_over <=> (SomeLine(board) \/ (Full(board) /\ ~SomeLine(board)))

C1_Witness == game_over /\ Full(board) /\ ~SomeLine(board) /\ result.op = "make_move"

\* C2: once game_over is true, a make_move call returns success = false, and it and
\* play_auto leave board, turn, winner, is_draw, game_over and history unchanged
\* and log no event; only reset changes the game.
C2_TerminalGameFrozen ==
    [][game_over =>
         \/ result'.op = "reset"
         \/ /\ UNCHANGED gameVars
            /\ events' = <<>>
            /\ result'.op = "make_move" => ~result'.success]_vars

C2_Witness ==
    /\ game_over
    /\ result.op = "make_move"
    /\ result.message = "Game is already over"
    /\ ~Full(board)

\* C3: on a non-terminal game, make_move with explicit coordinates that are out of
\* range or name an occupied cell returns success = false and leaves board, turn,
\* terminal flags and history unchanged.
C3_InvalidExplicitMoveRejected ==
    \A row \in Coord, col \in Coord :
       (~game_over /\ (OutOfRange(row, col) \/ <<row, col>> \in Marks(board))) =>
          LET out == make_move(ThisGame, Config, <<row>>, <<col>>, NoResponse, 1)
          IN  /\ ~out.result.success
              /\ out.g = ThisGame
              /\ out.result.current_player = current_player
              /\ ~out.result.game_over

C3_Witness ==
    /\ ~game_over
    /\ result.op = "make_move"
    /\ result.message = "Invalid move"
    /\ result.metadata = EmptyMetadata
    /\ Len(move_history) = 3
    /\ current_player = "O"

\* C4: while no line is complete get_winner() is None; a move completes a line of
\* the mover exactly when get_winner() becomes non-None, and that call returns
\* success = true with winner = the mover's symbol and game_over set.
C4_WinnerExactlyOnCompletingMove ==
    [][(~game_over /\ result'.op = "make_move") =>
         /\ check_winner(board) = None
         /\ ~SomeLine(board)
         /\ (check_winner(board') # None) <=> HasLine(board', current_player)
         /\ HasLine(board', current_player) =>
              /\ result'.success
              /\ result'.winner = current_player
              /\ result'.game_over
              /\ winner' = current_player
              /\ game_over'
              /\ check_winner(board') = current_player
         /\ ~HasLine(board', current_player) => winner' = None]_vars

C4_Witness ==
    /\ result.op = "make_move"
    /\ result.success
    /\ winner = "O"
    /\ HasLine(board, "O")
    /\ Len(move_history) = 6

\* The call that has just returned was Game.make_move() choosing the move itself.
ChooserCallReturned ==
    /\ pc' = "idle"
    /\ result'.op = "make_move"
    /\ "metadata" \in result'.keys
    /\ result'.metadata.player_type # "absent"

PlacedMove(res) == <<res.move[1], res.move[2]>>

\* C5: whatever agent.invoke does (raises, returns text that does not parse, returns
\* a move out of range or on an occupied cell) and whether or not the player has an
\* agent, the move choose_move hands to make_move is one of the available moves:
\* the call places it on a cell that was empty.
C5_ChosenMoveIsAvailable ==
    [][(~game_over /\ ChooserCallReturned) =>
         /\ result'.success
         /\ InSeq(PlacedMove(result'), get_available_moves(board))
         /\ board'[result'.move[1]][result'.move[2]] = current_player]_vars

C5_Witness ==
    /\ llm_calls # <<>>
    /\ llm_calls[1].kind = "json"
    /\ parse_llm_response(llm_calls[1]).move \in Marks(board)
    /\ parse_llm_response(llm_calls[1]).move # PlacedMove(result)
    /\ result.success
    /\ Len(move_history) = 4

\* C6: when agent.invoke fails (raises, or returns what cannot be decoded), make_move()
\* on a non-terminal game returns success = true with a move that is in range and
\* whose cell was empty, and metadata.error is set.
C6_FailingChooserStillMoves ==
    [][(/\ ~game_over
        /\ ChooserCallReturned
        /\ llm_calls' # <<>>
        /\ llm_calls'[1].kind \in {"raise", "text", "nonobject"}) =>
         /\ result'.success
         /\ ~OutOfRange(result'.move[1], result'.move[2])
         /\ PlacedMove(result') \notin Marks(board)
         /\ result'.metadata.error # None]_vars

C6_Witness ==
    /\ llm_calls = <<Failure("raise")>>
    /\ result.success
    /\ result.metadata.error # None
    /\ PlacedMove(result) = <<2, 2>>
    /\ Len(move_history) = 9

\* C7: a call of agent.invoke that is in flight can always end (by its answer or by
\* a timeout), so that make_move returns and the process takes its next request.
C7_ExternalCallCanEnd == pc = "invoking" => ENABLED NextLLM

\* C8: on every failure path (request failure, reply that does not parse, parsed move
\* not available) the metadata returned with the fallback move holds the failure
\* description _choose_move_llm gave, the prompt, the raw response if one was
\* received and the rationale that was parsed.
C8_FailureMetadataComplete ==
    [][(/\ ~game_over
        /\ ChooserCallReturned
        /\ llm_calls' # <<>>
        /\ choose_move_llm(get_available_moves(board), llm_calls'[1]).move = <<>>) =>
         LET llm == choose_move_llm(get_available_moves(board), llm_calls'[1])
         IN  /\ result'.metadata.error # None
             /\ result'.metadata.error = llm.metadata.error
             /\ result'.metadata.prompt = "prompt"
             /\ llm_calls'[1].kind # "raise" => result'.metadata.response = llm_calls'
             /\ result'.metadata.reasoning = llm.metadata.reasoning]_vars

\* C9: play_auto ends with game_over true after at most 9 - len(move_history) calls
\* of make_move, each of them successful; it makes no call on a terminal game, and
\* total_moves is the length of the move history.
C9_PlayAutoTerminates ==
    [][result'.op = "play_auto" =>
         /\ result'.success
         /\ pc' = "idle"
         /\ game_over'
         /\ Len(result'.moves) <= 9 - Len(move_history)
         /\ \A i \in 1 .. Len(result'.moves) : result'.moves[i].success
         /\ game_over => result'.moves = <<>>
         /\ result'.total_moves = Len(move_history')
         /\ Len(move_history') = Len(move_history) + Len(result'.moves)]_vars

C9_Witness ==
    /\ result.op = "play_auto"
    /\ Len(result.moves) = 7
    /\ result.total_moves = 9
    /\ is_draw

\* C10: while the game is not over, the number of available moves plus the length
\* of the move history is 9; a full board has no available move.
C10_AvailablePlusHistoryIsNine ==
    /\ ~game_over => Len(get_available_moves(board)) + Len(move_history) = 9
    /\ Full(board) => Len(get_available_moves(board)) = 0

C10_Witness ==
    /\ ~game_over
    /\ Len(move_history) = 8
    /\ result.op = "make_move"
    /\ result.message = "Invalid move"

\* C11: winner and is_draw never hold together; a board that is full and holds a
\* complete line (the 9th move completed it) is a won game, not a draw.
C11_WinnerAndDrawExclusive ==
    /\ ~(winner # None /\ is_draw)
    /\ (Full(board) /\ SomeLine(board)) => (winner # None /\ ~is_draw /\ game_over)
    /\ is_draw => (Full(board) /\ ~SomeLine(board))

C11_Witness ==
    /\ Full(board)
    /\ HasLine(board, "X")
    /\ winner = "X"
    /\ ~is_draw
    /\ Len(move_history) = 9
    /\ result.op = "make_move"
    /\ result.message = "wins"

\* C12: Game.reset followed by Game.get_state yields the state returned right after
\* construction (empty board, X to move, no winner, no draw, not over, empty history,
\* nine available moves), and reset leaves the game's game_id, its two players with
\* their chooser configuration and enable_logging unchanged.
C12_ResetRestoresInitialState ==
    [][(http'.op = "reset" /\ http'.status = 200) =>
         LET id == http'.game_id
         IN  /\ InRegistry(games, id)
             /\ InRegistry(games', id)
             /\ http'.state = <<get_state(games'[id].g)>>
             /\ get_state(games'[id].g) = get_state(NewGame)
             /\ get_state(games'[id].g) =
                  [board |-> EmptyBoard, current_player |-> "X", winner |-> None,
                   is_draw |-> FALSE, game_over |-> FALSE, move_history |-> <<>>,
                   available_moves |-> AllCells]
             /\ Len(get_state(games'[id].g).available_moves) = 9
             /\ games'[id].game_id = games[id].game_id
             /\ games'[id].players = games[id].players
             /\ games'[id].enable_logging = games[id].enable_logging]_vars

C12_Witness ==
    /\ http.op = "reset"
    /\ http.status = 200
    /\ http.game_id = 2
    /\ games[2].players["X"] = LLMPlayerNoAgent
    /\ ~games[2].enable_logging
    /\ games[2].g = NewGame
    /\ InRegistry(games, 1)
    /\ games[1].g.winner = "X"

\* C13: Board.make_move(row, col, symbol) returns false and leaves the grid unchanged
\* if row or col is outside 0..2 or the cell is not empty; otherwise it returns true,
\* sets that cell to symbol and leaves the other eight cells unchanged.  A second
\* placement on the cell just filled returns false and changes nothing.
C13_PlaceSetsOneEmptyCell ==
    \A row \in Coord, col \in Coord, symbol \in Symbols :
       LET out == Board_make_move(board, row, col, symbol)
       IN  IF OutOfRange(row, col) \/ <<row, col>> \in Marks(board)
           THEN ~out.ok /\ out.board = board
           ELSE /\ out.ok
                /\ out.board[row][col] = symbol
                /\ \A cell \in Cells \ {<<row, col>>} :
                      out.board[cell[1]][cell[2]] = board[cell[1]][cell[2]]
                /\ \A again \in Symbols :
                      /\ ~Board_make_move(out.board, row, col, again).ok
                      /\ Board_make_move(out.board, row, col, again).board = out.board

C13_Witness ==
    /\ result.op = "place"
    /\ ~result.success
    /\ Cardinality(Marks(board)) = 4
    /\ board[1][1] = "O"
    /\ board[0][0] = "O"
    /\ board[2][2] = "O"

\* C14: when the 9th valid move fills the board without completing a line, make_move
\* returns success = true with is_draw = true, winner None and game_over true, and
\* the move history holds 9 moves; no other successful move reports a draw.
C14_NinthMoveWithoutLineIsDraw ==
    (result.op = "make_move" /\ result.success) =>
       /\ (Full(board) /\ ~SomeLine(board)) =>
             /\ result.is_draw
             /\ "is_draw" \in result.keys
             /\ result.winner = None
             /\ result.game_over
             /\ Len(move_history) = 9
             /\ is_draw /\ winner = None /\ game_over
       /\ ("is_draw" \in result.keys /\ result.is_draw) =>
             (Full(board) /\ ~SomeLine(board) /\ Len(move_history) = 9)

C14_Witness ==
    /\ result.op = "make_move"
    /\ result.success
    /\ result.message = "draw"
    /\ result.is_draw
    /\ result.move = <<2, 2, "X">>
    /\ Len(move_history) = 9

\* The position of a cell in row-major order.
RowMajor(cell) == 3 * cell[1] + cell[2]

\* What a reported state st says of the turn and the available moves of the game g.
StateMatches(st, g) ==
    /\ (st.current_player = None) <=> g.game_over
    /\ ~g.game_over => st.current_player = g.current_player
    /\ g.game_over => st.available_moves = <<>>
    /\ ~g.game_over =>
          /\ {st.available_moves[i] : i \in 1 .. Len(st.available_moves)}
                = Cells \ Marks(g.board)
          /\ \A i \in 1 .. Len(st.available_moves), j \in 1 .. Len(st.available_moves) :
                i < j => RowMajor(st.available_moves[i]) < RowMajor(st.available_moves[j])

\* C15: Game.get_state reports the current-turn symbol as None exactly when the game
\* is terminal, reports no available moves whenever it is terminal (also when a won
\* board has empty cells), and otherwise reports the player to move and the board's
\* empty cells in row-major order.
C15_StateHidesTurnAndMovesWhenOver ==
    /\ \A id \in GameIds :
          InRegistry(games, id) => StateMatches(get_state(games[id].g), games[id].g)
    /\ (http.status = 200 /\ http.state # <<>>) =>
          StateMatches(http.state[1], games[http.game_id].g)

C15_Witness ==
    /\ http.op = "get"
    /\ http.status = 200
    /\ games[http.game_id].g.winner = "X"
    /\ ~Full(games[http.game_id].g.board)
    /\ http.state[1].available_moves = <<>>
    /\ http.state[1].current_player = None
    /\ http.state[1].winner = "X"

\* The operations addressed to one game.
GameOps == {"get", "move", "auto", "reset", "delete"}

\* C16: every operation addressed to a game identifier that is not in the registry
\* (get, move, play_auto, reset, delete; also an identifier deleted earlier) is
\* answered with not-found and leaves the registry and every game unchanged.
C16_UnknownGameIsNotFound ==
    [][(http'.op \in GameOps /\ ~InRegistry(games, http'.game_id)) =>
         /\ http'.status = 404
         /\ http'.message = "Game not found"
         /\ http'.state = <<>> /\ http'.result = <<>>
         /\ games' = games]_vars

C16_Witness ==
    /\ http.op = "reset"
    /\ http.status = 404
    /\ http.game_id = 1
    /\ games[1] = Deleted
    /\ InRegistry(games, 2)
    /\ Len(games[2].g.move_history) = 3

\* C17: an operation on the game g (move, play_auto, reset, delete) leaves every
\* other game of the registry (board, turn, flags, history, players) and its
\* membership unchanged: a step changes the entry of an identifier only when it
\* is the answer to a request addressed to that identifier.
C17_OtherGamesUntouched ==
    [][/\ http'.op \in GameOps =>
            \A other \in GameIds \ {http'.game_id} : games'[other] = games[other]
       /\ \A id \in GameIds :
            games'[id] # games[id] =>
               /\ http'.game_id = id
               /\ http'.status = 200
               /\ http'.op \in {"create", "move", "auto", "reset", "delete"}]_vars

C17_Witness ==
    /\ http.op = "reset"
    /\ http.status = 200
    /\ http.game_id = 1
    /\ games[1].g = NewGame
    /\ InRegistry(games, 2)
    /\ games[2].g.winner = "X"
    /\ Len(games[2].g.move_history) = 7

\* The player of the n-th move of a game: X, O, X, ...
Mover(n) == IF n % 2 = 1 THEN "X" ELSE "O"

\* C18: the game starts with X to move; each successful non-terminal move switches
\* the turn and returns the next player's symbol, so the players of the move history
\* alternate X, O, X, ... from X, and an invalid attempt leaves the turn as it was.
C18_TurnsAlternateFromX ==
    /\ \A i \in 1 .. Len(move_history) : move_history[i].player = Mover(i)
    /\ ~game_over => current_player = Mover(Len(move_history) + 1)
    /\ (result.op = "make_move" /\ result.success /\ ~game_over) =>
          /\ result.current_player = current_player
          /\ result.move[3] = Mover(Len(move_history))
          /\ result.move[3] # result.current_player
    /\ (result.op = "make_move" /\ result.message = "Invalid move") =>
          result.current_player = Mover(Len(move_history) + 1)

C18_Witness ==
    /\ result.op = "make_move"
    /\ result.message = "Invalid move"
    /\ Len(move_history) = 4
    /\ move_history[4].player = "O"
    /\ current_player = "X"
    /\ result.current_player = "X"

\* A game whose board, history and turn belong to one another.
MoveApplied(g) ==
    /\ Len(g.move_history) = Cardinality(Marks(g.board))
    /\ \A i \in 1 .. Len(g.move_history) :
          g.board[g.move_history[i].row][g.move_history[i].col] = g.move_history[i].player
    /\ ~g.game_over => g.current_player = Mover(Len(g.move_history) + 1)

\* C19: under every interleaving of requests (create, get, move, play_auto, reset,
\* delete, list) the registry check of a request and its effect are one atomic
\* unit: once a handler has passed its check the next step of the service is that
\* handler's own answer, on the game it found, so the requests take effect in a
\* sequential order; a move changes board, history and turn together; and a request
\* racing with a delete acts on the game or is answered not-found, never otherwise.
C19_HandlersRunAtomically ==
    [][/\ \A req \in inflight :
            /\ InRegistry(games, req.game_id)
            /\ inflight' = inflight \ {req}
            /\ http'.op = req.op
            /\ http'.game_id = req.game_id
            /\ http'.status = 200
       /\ http'.status \in {0, 200, 404}
       /\ \A id \in GameIds : InRegistry(games', id) => MoveApplied(games'[id].g)]_vars

C19_Witness ==
    /\ http.op = "move"
    /\ http.status = 404
    /\ games[http.game_id] = Deleted
    /\ inflight = {}
    /\ \E id \in GameIds : InRegistry(games, id) /\ Len(games[id].g.move_history) = 5

\* The move events among the log events evs.
MoveEvents(evs) == SelectSeq(evs, LAMBDA e : e.type = "move")

\* C20: with logging enabled, a make_move call on a non-terminal game emits one move
\* event for its placement attempt, valid or not, whose validity flag tells whether
\* the board took the mark and which names the mover and the number of the move; a
\* call on a terminal game emits no move event.
C20_MoveEventPerAttempt ==
    [][(enable_logging /\ result'.op = "make_move") =>
         IF game_over
         THEN MoveEvents(events') = <<>>
         ELSE /\ Len(MoveEvents(events')) = 1
              /\ events'[1].type = "move"
              /\ events'[1].move_valid = (board' # board)
              /\ events'[1].move_valid = result'.success
              /\ events'[1].player = current_player
              /\ events'[1].move_number = Len(move_history) + 1]_vars

C20_Witness ==
    /\ result.op = "make_move"
    /\ result.message = "Invalid move"
    /\ Len(events) = 1
    /\ events[1].type = "move"
    /\ ~events[1].move_valid
    /\ events[1].move_number = 3
    /\ events[1].player = "X"

\* The game-completion events among the log events evs.
CompletionEvents(evs) == SelectSeq(evs, LAMBDA e : e.type = "game")

\* C21: with logging enabled, a make_move call emits a game-completion event exactly
\* when it takes the game into a terminal state (so once between resets, and never
\* on a later call); the event follows the move event of the final move and carries
\* the length of the move history, the winner and the draw flag of the game.
C21_CompletionEventOnEnteringTerminal ==
    [][(enable_logging /\ result'.op = "make_move") =>
         /\ (CompletionEvents(events') # <<>>) <=> (~game_over /\ game_over')
         /\ game_over => CompletionEvents(events') = <<>>
         /\ (~game_over /\ game_over') =>
               /\ Len(events') = 2
               /\ events'[1].type = "move"
               /\ events'[1].move_valid
               /\ events'[1].move_number = Len(move_history')
               /\ events'[2].type = "game"
               /\ events'[2].total_moves = Len(move_history')
               /\ events'[2].winner = winner'
               /\ events'[2].is_draw = is_draw']_vars

C21_Witness ==
    /\ result.op = "make_move"
    /\ Len(events) = 2
    /\ events[2].type = "game"
    /\ events[2].total_moves = 9
    /\ events[2].winner = "X"
    /\ ~events[2].is_draw
    /\ Full(board)

\* C22: a make_move call makes at most one external call: exactly one when the game
\* is not over, the player to move has an agent and no coordinates are given, none
\* when both coordinates are given, when the player is random or has no agent, or
\* when the game is over; a failed attempt is followed at once by the random
\* fallback, so the call still returns a move.  The calls with explicit coordinates
\* are those a client could make before the first external call.
C22_SingleExternalAttempt ==
    /\ Len(llm_calls) <= 1
    /\ external_calls <= MaxExternalCalls
    /\ (result.op = "make_move" /\ pc = "idle") =>
          /\ result.message = "Game is already over" => llm_calls = <<>>
          /\ result.metadata.player_type = "absent" => llm_calls = <<>>
          /\ ("move" \in result.keys /\ result.metadata.player_type # "absent") =>
                Len(llm_calls) = IF UsesAgent(players[result.move[3]]) THEN 1 ELSE 0
          /\ (llm_calls # <<>> /\ llm_calls[1].kind \in {"raise", "text", "nonobject"}) =>
                /\ result.success
                /\ result.metadata.error = "LLM move invalid, used random fallback"
                /\ move_history[Len(move_history)].row = result.move[1]
                /\ move_history[Len(move_history)].col = result.move[2]
    /\ (pc = "idle" /\ external_calls = 0) =>
          \A cell \in {<<0, 0>>, <<2, 2>>, <<3, 3>>} :
             make_move(ThisGame, Config, <<cell[1]>>, <<cell[2]>>, Failure("raise"), 1).llm_calls
               = <<>>

C22_Witness ==
    /\ llm_calls = <<Failure("text")>>
    /\ external_calls = 1
    /\ result.success
    /\ result.metadata.error # None
    /\ result.metadata.player_type = "llm"
    /\ Len(move_history) = 3

\* The eight lines in the order rows 0-2, columns 0-2, main diagonal, anti-diagonal.
OrderedLines ==
    [i \in 1 .. 8 |->
       IF i <= 3 THEN [k \in 1 .. 3 |-> <<i - 1, k - 1>>]
       ELSE IF i <= 6 THEN [k \in 1 .. 3 |-> <<k - 1, i - 4>>]
       ELSE IF i = 7 THEN [k \in 1 .. 3 |-> <<k - 1, k - 1>>]
       ELSE [k \in 1 .. 3 |-> <<k - 1, 3 - k>>]]

At(b, cell) == b[cell[1]][cell[2]]

CompleteLines(b) ==
    {i \in 1 .. 8 : /\ At(b, OrderedLines[i][1]) # None
                    /\ \A k \in 2 .. 3 : At(b, OrderedLines[i][k]) = At(b, OrderedLines[i][1])}

\* C23: on every 3x3 grid over {empty, X, O}, check_winner returns a symbol iff some
\* row, column or diagonal holds three equal symbols, and the symbol returned is that
\* of the first complete line in the order rows 0-2, columns 0-2, main diagonal,
\* anti-diagonal; Board.get_winner returns the same value.
C23_CheckWinnerFirstCompleteLine ==
    /\ (check_winner(board) # None) <=> SomeLine(board)
    /\ (check_winner(board) # None) <=> (CompleteLines(board) # {})
    /\ CompleteLines(board) # {} =>
          check_winner(board) = At(board, OrderedLines[Min(CompleteLines(board))][1])
    /\ result.op = "get_winner" =>
          result.winner = IF CompleteLines(board) = {} THEN None
                          ELSE At(board, OrderedLines[Min(CompleteLines(board))][1])

C23_Witness ==
    /\ result.op = "get_winner"
    /\ result.winner = "X"
    /\ \A c \in Idx : board[0][c] = "X" /\ board[2][c] = "O"
    /\ board[1][0] = "O" /\ board[1][1] = None /\ board[1][2] = "X"

\* The cells of b that hold symbol s.
MarksOf(b, s) == {cell \in Cells : At(b, cell) = s}

\* C24: in every state reached through Game.make_move and Game.reset, at most one of
\* a complete X line and a complete O line exists; a complete line belongs to the
\* recorded winner of a finished game.
C24_AtMostOneSymbolHasLine ==
    /\ ~(HasLine(board, "X") /\ HasLine(board, "O"))
    /\ \A s \in Symbols : HasLine(board, s) => (game_over /\ winner = s)

C24_Witness ==
    /\ HasLine(board, "X")
    /\ Cardinality(MarksOf(board, "O")) = 3
    /\ \E line \in Lines :
          /\ Cardinality({cell \in line : At(board, cell) = "O"}) = 2
          /\ \E cell \in line : At(board, cell) = None
    /\ result.message = "Game is already over"

\* C25: across a make_move step a non-empty cell keeps its symbol, and at most one
\* cell changes, from empty to the symbol of the player to move; only reset empties
\* cells, and it empties all of them.
C25_CellWrittenOnce ==
    [][/\ result'.op # "reset" =>
             \A cell \in Cells : At(board, cell) # None => At(board', cell) = At(board, cell)
       /\ result'.op = "make_move" =>
             /\ Cardinality({cell \in Cells : At(board', cell) # At(board, cell)}) <= 1
             /\ \A cell \in Cells :
                   At(board', cell) # At(board, cell) => At(board', cell) = current_player
       /\ result'.op = "reset" => board' = EmptyBoard]_vars

C25_Witness ==
    /\ result.op = "make_move"
    /\ result.message = "Invalid move"
    /\ Cardinality(Marks(board)) = 7
    /\ ~game_over

\* C26: the move history is as long as the number of non-empty cells, the cell of
\* each entry holds the entry's player, and the history never has more than 9
\* entries.
C26_HistoryMatchesBoard ==
    /\ Len(move_history) = Cardinality(Marks(board))
    /\ \A i \in 1 .. Len(move_history) :
          /\ <<move_history[i].row, move_history[i].col>> \in Cells
          /\ At(board, <<move_history[i].row, move_history[i].col>>) = move_history[i].player
    /\ Len(move_history) <= 9

C26_Witness ==
    /\ Len(move_history) = 9
    /\ winner = "X"
    /\ Full(board)

\* C27: the 'No available moves' branch of make_move is never taken: a game that is
\* not over has an empty cell, no call returns that message, and a make_move call
\* that returns success = false changes neither is_draw nor game_over and logs no
\* completion event.
C27_NoAvailableMovesBranchDead ==
    [][/\ ~game_over => get_available_moves(board) # <<>>
       /\ ~game_over' => get_available_moves(board') # <<>>
       /\ result'.message # "No available moves"
       /\ (result'.op = "make_move" /\ ~result'.success) =>
             /\ result'.message \in {"Invalid move", "Game is already over"}
             /\ is_draw' = is_draw
             /\ game_over' = game_over
             /\ CompletionEvents(events') = <<>>]_vars

C27_Witness ==
    /\ result.op = "make_move"
    /\ ~result.success
    /\ result.message = "Invalid move"
    /\ Cardinality(Marks(board)) = 8
    /\ ~game_over
    /\ Len(events) = 1

\* C28: the number of X marks minus the number of O marks is 0 or 1; while the game
\* is not over the player to move is X iff the counts are equal; a game won by X has
\* one more X than O and a game won by O has equal counts.
C28_MarkCountsFollowTurns ==
    LET nx == Cardinality(MarksOf(board, "X"))
        no == Cardinality(MarksOf(board, "O"))
    IN  /\ nx - no \in {0, 1}
        /\ ~game_over => (current_player = "X" <=> nx = no)
        /\ (game_over /\ winner = "X") => nx = no + 1
        /\ (game_over /\ winner = "O") => nx = no

C28_Witness ==
    /\ game_over
    /\ winner = "O"
    /\ Cardinality(MarksOf(board, "X")) = 4
    /\ Cardinality(MarksOf(board, "O")) = 4
    /\ result.op = "make_move"
    /\ result.success

\* C29: a move-history entry (and the move event logged with it) that carries a
\* rationale got it from the external response that named the entry's own
\* coordinates; a random fallback move carries no rationale of a rejected suggestion.
C29_RationaleBelongsToRecordedMove ==
    (result.op = "make_move" /\ pc = "idle" /\ "move" \in result.keys) =>
       LET entry == move_history[Len(move_history)]
       IN  /\ entry.reasoning # None =>
                 /\ llm_calls # <<>>
                 /\ parse_llm_response(llm_calls[1]).move = <<entry.row, entry.col>>
           /\ result.metadata.error # None => entry.reasoning = None
           /\ \A i \in 1 .. Len(events) :
                 events[i].type = "move" => events[i].llm_reasoning = entry.reasoning

\* C30: a chooser-selected move reported with kind 'llm' that was drawn at random
\* (no external call was made, or its suggestion was not usable) has metadata.error
\* set; a move reported with kind 'random' never has error set.
C30_RandomPickOfLLMKindHasError ==
    [][(~game_over /\ ChooserCallReturned /\ "move" \in result'.keys) =>
         LET drawn == \/ llm_calls' = <<>>
                      \/ choose_move_llm(get_available_moves(board), llm_calls'[1]).move = <<>>
         IN  /\ (result'.metadata.player_type = "llm" /\ drawn) =>
                   result'.metadata.error # None
             /\ result'.metadata.player_type = "random" =>
                   result'.metadata.error = None]_vars

\* The calls with exactly one coordinate supplied.
OneCoordinate == {rc \in PartialInputs : rc[1] # <<>> \/ rc[2] # <<>>}

\* C31: make_move places the caller's coordinates only when both are supplied; with
\* exactly one supplied the call does what the call without coordinates does: the
\* supplied coordinate is ignored, the current player's chooser selects the whole
\* move, and the call succeeds with a move from the available moves.
C31_LoneCoordinateIgnored ==
    ~game_over =>
       /\ \A pick \in Picks(board) :
             LET whole == make_move(ThisGame, Config, <<>>, <<>>, NoResponse, pick)
             IN  \A rc \in OneCoordinate :
                    LET out == make_move(ThisGame, Config, rc[1], rc[2], NoResponse, pick)
                    IN  /\ out = whole
                        /\ out.result.success
                        /\ PlacedMove(out.result) = get_available_moves(board)[pick]
                        /\ out.g.board[PlacedMove(out.result)[1]][PlacedMove(out.result)[2]]
                              = current_player
                        /\ out.result.metadata.player_type
                              = get_player_type(players[current_player])
       /\ \A cell \in {<<1, 1>>, <<-1, 1>>, <<2, 0>>} :
             LET out == make_move(ThisGame, Config, <<cell[1]>>, <<cell[2]>>, NoResponse, 1)
             IN  /\ out.result.success <=> (cell \in Cells /\ cell \notin Marks(board))
                 /\ out.result.success => PlacedMove(out.result) = cell
                 /\ out.result.metadata = EmptyMetadata

C31_Witness ==
    LET out == make_move(NewGame, Config, <<1>>, <<>>, NoResponse, 2)
    IN  /\ ThisGame = out.g
        /\ result = out.result
        /\ result.move = <<0, 1, "X">>
        /\ result.metadata.player_type = "random"

====
